---- MODULE Spec2Model ----
(***************************************************************************)
(* Sidecar supervisor of the Brian desktop shell (src-tauri/src/lib.rs):   *)
(* the port resolver read_backend_port, the setup closure that spawns the  *)
(* brian-backend sidecar and stores its handle, the output relay task, the *)
(* health-check task and the window-event handler that kills the sidecar.  *)
(***************************************************************************)
EXTENDS Integers, Sequences, FiniteSets, TLC

(***************************************************************************)
(* Bounds of the model (environment only).                                 *)
(***************************************************************************)
\* longest port-file content enumerated for the resolver
MaxLen == 5
\* most events the sidecar's output channel carries in one run
MaxEvents == 3
\* most window Destroyed events delivered in one run
MaxDestroy == 2

(***************************************************************************)
(* Program constants.                                                      *)
(***************************************************************************)
MAX_RETRIES == 30
DEFAULT_PORT == 8080
U16_MAX == 65535

(***************************************************************************)
(* Option<T>: None is the empty sequence, Some(v) the one-element one.     *)
(***************************************************************************)
None == <<>>
Some(v) == <<v>>
unwrap_or(o, d) == IF o = None THEN d ELSE o[1]

(***************************************************************************)
(* Port file and the Port Resolver.                                        *)
(***************************************************************************)
WhiteSpace == {" ", "\n", "\t", "\r"}
DigitChars == <<"0", "1", "2", "3", "4", "5", "6", "7", "8", "9">>
IsDigit(c) == \E i \in 1..10 : DigitChars[i] = c
to_digit(c) == (CHOOSE i \in 1..10 : DigitChars[i] = c) - 1

\* states of <home>/.brian/port as the resolver can find it
NoHome == [kind |-> "NoHome", content |-> <<>>]
Missing == [kind |-> "Missing", content |-> <<>>]
Unreadable == [kind |-> "Unreadable", content |-> <<>>]
File(s) == [kind |-> "File", content |-> s]

\* std::fs::read_to_string(&port_file).ok(); an unresolved home directory
\* gives the empty path, whose read fails like any other
read_to_string(f) == IF f.kind = "File" THEN Some(f.content) ELSE None

RECURSIVE trim_start(_)
trim_start(s) ==
    IF s = <<>> THEN s
    ELSE IF Head(s) \in WhiteSpace THEN trim_start(Tail(s)) ELSE s

RECURSIVE trim_end(_)
trim_end(s) ==
    IF s = <<>> THEN s
    ELSE IF s[Len(s)] \in WhiteSpace THEN trim_end(SubSeq(s, 1, Len(s) - 1)) ELSE s

trim_nothing(s) == s
trim(s) == trim_end(trim_start(s))

\* the digit loop of u16::from_str: checked multiply by ten, checked add
RECURSIVE parse_digits(_, _)
parse_digits(d, acc) ==
    IF d = <<>> THEN Some(acc)
    ELSE IF ~IsDigit(Head(d)) THEN None
    ELSE LET v == acc * 10 + to_digit(Head(d))
         IN  IF v > U16_MAX THEN None ELSE parse_digits(Tail(d), v)

\* str::parse::<u16>().ok(): empty and a lone sign are errors, one leading
\* "+" is accepted, "-" is not a digit of an unsigned type
parse_u16(s) ==
    IF s = <<>> THEN None
    ELSE IF Len(s) = 1 /\ s[1] \in {"+", "-"} THEN None
    ELSE parse_digits(IF s[1] = "+" THEN Tail(s) ELSE s, 0)

and_then_parse(o) == IF o = None THEN None ELSE parse_u16(trim(o[1]))

read_backend_port(f) == unwrap_or(and_then_parse(read_to_string(f)), DEFAULT_PORT)

\* port-file contents enumerated for the resolver on its own
Alphabet == {" ", "\n", "+", "x", "0", "3", "5", "6"}
Contents == UNION {[1..n -> Alphabet] : n \in 0..MaxLen}
ResolverFiles == {NoHome, Missing, Unreadable} \cup {File(s) : s \in Contents}

\* port-file states the backend moves through while the prober runs
ProbeFiles == {Missing, File(<<" ", " ", "9", "0", "9", "1", "\n">>), File(<<"x">>)}

(***************************************************************************)
(* Process events and health responses.                                    *)
(***************************************************************************)
CommandEvents == {"Stdout", "Stderr", "Terminated", "Error", "Other"}

TransportError == [kind |-> "Err", status |-> 0]
HttpResponse(st) == [kind |-> "Ok", status |-> st]
Statuses == {199, 200, 299, 300, 500}
Responses == {TransportError} \cup {HttpResponse(st) : st \in Statuses}
NoResponse == [kind |-> "None", status |-> 0]

\* StatusCode::is_success
is_success(st) == 200 <= st /\ st < 300

(***************************************************************************)
(* Notifications published through AppHandle::emit.                        *)
(***************************************************************************)
RelayErrorMsg == "sidecar process terminated unexpectedly"
ProberErrorMsg == "backend health check failed after 30 retries"

ReadyNote(p) == [name |-> "backend-ready", payload |-> Some(p), msg |-> "", from |-> "prober"]
ProberErrorNote == [name |-> "backend-error", payload |-> None, msg |-> ProberErrorMsg, from |-> "prober"]
RelayErrorNote == [name |-> "backend-error", payload |-> None, msg |-> RelayErrorMsg, from |-> "relay"]

VARIABLES
    debug,          \* cfg!(debug_assertions)
    setup_pc,       \* position of the setup closure
    spawned,        \* sidecar processes spawned
    mutex,          \* holder of SidecarChild's Mutex: "free", "setup", "window"
    slot,           \* Option<CommandChild> inside the Mutex
    stores,         \* writes of Some(child) into the slot
    kills,          \* child.kill() calls
    win_pc,         \* position of the on_window_event handler
    destroys,       \* WindowEvent::Destroyed events delivered
    rx,             \* events waiting in the Receiver<CommandEvent>
    emitted,        \* every event the sidecar put on the channel
    closed,         \* the channel's sender is gone
    kill_exit,      \* place in emitted of the Terminated that child.kill() caused, 0: none
    relay_pc,       \* position of the output relay task
    handled,        \* events the relay took from rx
    relay_log,      \* log levels written by the relay
    hp_pc,          \* position of the health-check task
    attempt,        \* loop variable of the health-check loop
    port,           \* the task's local port
    current_port,   \* the last re-read inside the loop
    url_port,       \* port of the URL of the last request sent
    prev_url,       \* port of the URL of the request before that one
    probes,         \* health requests sent
    delays,         \* RETRY_DELAY sleeps started
    failures,       \* requests that ended non-2xx or with a transport error
    reads,          \* read_backend_port calls of the task
    last_resp,      \* outcome of the last request
    portFile,       \* state of <home>/.brian/port
    sink,           \* notifications published, in order
    resolved        \* result of a stand-alone read_backend_port call

supVars == <<debug, setup_pc, spawned, mutex, slot, stores, kills, win_pc, destroys>>
relayVars == <<rx, emitted, closed, kill_exit, relay_pc, handled, relay_log>>
hpVars == <<hp_pc, attempt, port, current_port, url_port, prev_url, probes, delays,
            failures, reads, last_resp>>
vars == <<supVars, relayVars, hpVars, portFile, sink, resolved>>

InitWith(files) ==
    /\ debug \in BOOLEAN
    /\ setup_pc = "start"
    /\ spawned = 0
    /\ mutex = "free"
    /\ slot = None
    /\ stores = 0
    /\ kills = 0
    /\ win_pc = "idle"
    /\ destroys = 0
    /\ rx = <<>>
    /\ emitted = <<>>
    /\ closed = FALSE
    /\ kill_exit = 0
    /\ relay_pc = "not_started"
    /\ handled = <<>>
    /\ relay_log = <<>>
    /\ hp_pc = "not_started"
    /\ attempt = 0
    /\ port = 0
    /\ current_port = 0
    /\ url_port = 0
    /\ prev_url = 0
    /\ probes = 0
    /\ delays = 0
    /\ failures = 0
    /\ reads = 0
    /\ last_resp = NoResponse
    /\ portFile \in files
    /\ sink = <<>>
    /\ resolved = None

Init == InitWith(ProbeFiles)


(***************************************************************************)
(* Setup closure (lib.rs 33-146).                                          *)
(***************************************************************************)
\* the application is running: setup has not panicked
Alive == setup_pc /= "panicked"

\* if cfg!(debug_assertions)
skip_spawn_never == FALSE
skip_spawn == debug

\* debug build: log and return Ok(()) before anything is spawned
SetupDebug ==
    /\ setup_pc = "start"
    /\ skip_spawn
    /\ setup_pc' = "done"
    /\ UNCHANGED <<debug, spawned, mutex, slot, stores, kills, win_pc, destroys>>
    /\ UNCHANGED <<relayVars, hpVars, portFile, sink, resolved>>

\* sidecar("brian-backend") and spawn() both succeed: (rx, child) exist
SetupSpawn ==
    /\ setup_pc = "start"
    /\ ~skip_spawn
    /\ spawned' = spawned + 1
    /\ setup_pc' = "store_lock"
    /\ UNCHANGED <<debug, mutex, slot, stores, kills, win_pc, destroys>>
    /\ UNCHANGED <<relayVars, hpVars, portFile, sink, resolved>>

\* where setup stands after expect() met an Err: the panic ends the process
expect_ignored == "spawn_relay"
expect_failed == "panicked"

\* sidecar() or spawn() returns Err: expect() panics inside setup
SetupSpawnFail ==
    /\ setup_pc = "start"
    /\ ~skip_spawn
    /\ setup_pc' = expect_failed
    /\ UNCHANGED <<debug, spawned, mutex, slot, stores, kills, win_pc, destroys>>
    /\ UNCHANGED <<relayVars, hpVars, portFile, sink, resolved>>

\* Mutex::lock: blocks until the mutex is free
lock_unguarded == TRUE
lock_free == mutex = "free"

\* state.0.lock() in setup
StoreLock ==
    /\ setup_pc = "store_lock"
    /\ lock_free
    /\ mutex' = "setup"
    /\ setup_pc' = "store_write"
    /\ UNCHANGED <<debug, spawned, slot, stores, kills, win_pc, destroys>>
    /\ UNCHANGED <<relayVars, hpVars, portFile, sink, resolved>>

\* *guard = Some(child)
StoreWrite_Forgets ==
    /\ setup_pc = "store_write"
    /\ slot' = None
    /\ stores' = stores + 1
    /\ setup_pc' = "store_unlock"
    /\ UNCHANGED <<debug, spawned, mutex, kills, win_pc, destroys>>
    /\ UNCHANGED <<relayVars, hpVars, portFile, sink, resolved>>
StoreWrite ==
    /\ setup_pc = "store_write"
    /\ slot' = Some("child")
    /\ stores' = stores + 1
    /\ setup_pc' = "store_unlock"
    /\ UNCHANGED <<debug, spawned, mutex, kills, win_pc, destroys>>
    /\ UNCHANGED <<relayVars, hpVars, portFile, sink, resolved>>

\* the guard is dropped at the end of the block
StoreUnlock ==
    /\ setup_pc = "store_unlock"
    /\ mutex' = "free"
    /\ setup_pc' = "spawn_relay"
    /\ UNCHANGED <<debug, spawned, slot, stores, kills, win_pc, destroys>>
    /\ UNCHANGED <<relayVars, hpVars, portFile, sink, resolved>>

\* first async_runtime::spawn: the output relay
SpawnRelayTask ==
    /\ setup_pc = "spawn_relay"
    /\ relay_pc' = "consuming"
    /\ setup_pc' = "spawn_health"
    /\ UNCHANGED <<debug, spawned, mutex, slot, stores, kills, win_pc, destroys>>
    /\ UNCHANGED <<rx, emitted, closed, kill_exit, handled, relay_log>>
    /\ UNCHANGED <<hpVars, portFile, sink, resolved>>

\* second async_runtime::spawn: the health check; setup returns Ok(())
SpawnHealthTask_ReadsEarly ==
    /\ setup_pc = "spawn_health"
    /\ hp_pc' = "warmup"
    /\ port' = read_backend_port(portFile)
    /\ reads' = reads + 1
    /\ setup_pc' = "done"
    /\ UNCHANGED <<debug, spawned, mutex, slot, stores, kills, win_pc, destroys>>
    /\ UNCHANGED <<attempt, current_port, url_port, prev_url, probes, delays>>
    /\ UNCHANGED <<failures, last_resp>>
    /\ UNCHANGED <<relayVars, portFile, sink, resolved>>
SpawnHealthTask ==
    /\ setup_pc = "spawn_health"
    /\ hp_pc' = "warmup"
    /\ setup_pc' = "done"
    /\ UNCHANGED <<debug, spawned, mutex, slot, stores, kills, win_pc, destroys>>
    /\ UNCHANGED <<attempt, port, current_port, url_port, prev_url, probes, delays>>
    /\ UNCHANGED <<failures, reads, last_resp>>
    /\ UNCHANGED <<relayVars, portFile, sink, resolved>>

(***************************************************************************)
(* Window-event handler (lib.rs 148-157).                                  *)
(***************************************************************************)
\* a Destroyed event arrives: state.0.lock()
DestroyLock ==
    /\ Alive
    /\ win_pc = "idle"
    /\ destroys < MaxDestroy
    /\ lock_free
    /\ mutex' = "window"
    /\ destroys' = destroys + 1
    /\ win_pc' = "take"
    /\ UNCHANGED <<debug, setup_pc, spawned, slot, stores, kills>>
    /\ UNCHANGED <<relayVars, hpVars, portFile, sink, resolved>>

\* Option::take: what is left in the slot
take_keeps(s) == s
take_leaves(s) == None

\* if let Some(child) = guard.take() { let _ = child.kill(); }
DestroyTake_Cancels ==
    /\ Alive
    /\ win_pc = "take"
    /\ slot' = None
    /\ kills' = IF slot /= None THEN kills + 1 ELSE kills
    /\ win_pc' = "unlock"
    /\ hp_pc' = IF hp_pc \in {"warmup", "loop_top", "http_await", "retry_sleep"}
                THEN "failed" ELSE hp_pc
    /\ UNCHANGED <<debug, setup_pc, spawned, mutex, stores, destroys>>
    /\ UNCHANGED <<attempt, port, current_port, url_port, prev_url, probes, delays>>
    /\ UNCHANGED <<failures, reads, last_resp>>
    /\ UNCHANGED <<relayVars, portFile, sink, resolved>>
DestroyTake ==
    /\ Alive
    /\ win_pc = "take"
    /\ slot' = take_leaves(slot)
    /\ kills' = IF slot /= None THEN kills + 1 ELSE kills
    /\ win_pc' = "unlock"
    /\ UNCHANGED <<debug, setup_pc, spawned, mutex, stores, destroys>>
    /\ UNCHANGED <<relayVars, hpVars, portFile, sink, resolved>>

\* the guard is dropped when the handler returns
DestroyUnlock ==
    /\ Alive
    /\ win_pc = "unlock"
    /\ mutex' = "free"
    /\ win_pc' = "idle"
    /\ UNCHANGED <<debug, setup_pc, spawned, slot, stores, kills, destroys>>
    /\ UNCHANGED <<relayVars, hpVars, portFile, sink, resolved>>

(***************************************************************************)
(* The sidecar's output channel and the output relay task (lib.rs 64-89).  *)
(***************************************************************************)
\* the sidecar (or the shell plugin watching it) sends an event
Emit(event) ==
    /\ Alive
    /\ spawned > 0
    /\ ~closed
    /\ Len(emitted) < MaxEvents
    /\ rx' = Append(rx, event)
    /\ emitted' = Append(emitted, event)
    /\ UNCHANGED <<closed, kill_exit, relay_pc, handled, relay_log>>
    /\ UNCHANGED <<supVars, hpVars, portFile, sink, resolved>>

\* the killed sidecar exits: the shell plugin, which waits on the child,
\* sends Terminated for it
KilledExit ==
    /\ Alive
    /\ kills > 0
    /\ kill_exit = 0
    /\ ~closed
    /\ \A i \in 1..Len(emitted) : emitted[i] /= "Terminated"
    /\ Len(emitted) < MaxEvents
    /\ rx' = Append(rx, "Terminated")
    /\ emitted' = Append(emitted, "Terminated")
    /\ kill_exit' = Len(emitted) + 1
    /\ UNCHANGED <<closed, relay_pc, handled, relay_log>>
    /\ UNCHANGED <<supVars, hpVars, portFile, sink, resolved>>

\* the sender side of the channel is dropped
CloseStream ==
    /\ Alive
    /\ spawned > 0
    /\ ~closed
    /\ closed' = TRUE
    /\ UNCHANGED <<rx, emitted, kill_exit, relay_pc, handled, relay_log>>
    /\ UNCHANGED <<supVars, hpVars, portFile, sink, resolved>>

\* what each match arm does: log levels written, notifications emitted,
\* and whether the arm breaks out of the while-let loop
OnStdout == [log |-> <<"info">>, emit |-> <<>>, brk |-> FALSE]
OnStderr == [log |-> <<"error">>, emit |-> <<>>, brk |-> FALSE]
OnTerminated_Dedup ==
    [log |-> <<"warn">>,
     emit |-> IF \E i \in 1..Len(sink) : sink[i].name = "backend-error"
              THEN <<>> ELSE <<RelayErrorNote>>,
     brk |-> TRUE]
OnTerminated_NoBreak == [log |-> <<"warn">>, emit |-> <<RelayErrorNote>>, brk |-> FALSE]
OnTerminated == [log |-> <<"warn">>, emit |-> <<RelayErrorNote>>, brk |-> TRUE]
OnError_Escalates == [log |-> <<"error">>, emit |-> <<RelayErrorNote>>, brk |-> TRUE]
OnError == [log |-> <<"error">>, emit |-> <<>>, brk |-> FALSE]
OnOther == [log |-> <<>>, emit |-> <<>>, brk |-> FALSE]

match_event(event) ==
    CASE event = "Stdout" -> OnStdout
      [] event = "Stderr" -> OnStderr
      [] event = "Terminated" -> OnTerminated
      [] event = "Error" -> OnError
      [] OTHER -> OnOther

\* rx.recv(): the oldest waiting event
recv_newest(q) == q[Len(q)]
recv(q) == Head(q)

\* one iteration of while let Some(event) = rx.recv().await
RelayRecv ==
    /\ relay_pc = "consuming"
    /\ rx /= <<>>
    /\ LET event == recv(rx)
           arm == match_event(event)
       IN  /\ rx' = Tail(rx)
           /\ handled' = Append(handled, event)
           /\ relay_log' = relay_log \o arm.log
           /\ sink' = sink \o arm.emit
           /\ relay_pc' = IF arm.brk THEN "stopped" ELSE "consuming"
    /\ UNCHANGED <<emitted, closed, kill_exit>>
    /\ UNCHANGED <<supVars, hpVars, portFile, resolved>>

\* rx.recv() returns None: the channel is closed and drained
RelayEnd_Spins ==
    /\ relay_pc = "consuming"
    /\ rx = <<>>
    /\ closed
    /\ UNCHANGED vars
RelayEnd ==
    /\ relay_pc = "consuming"
    /\ rx = <<>>
    /\ closed
    /\ relay_pc' = "stopped"
    /\ UNCHANGED <<rx, emitted, closed, kill_exit, handled, relay_log>>
    /\ UNCHANGED <<supVars, hpVars, portFile, sink, resolved>>

(***************************************************************************)
(* Port file writes by the backend.                                        *)
(***************************************************************************)
PortWrite(f) ==
    /\ f /= portFile
    /\ portFile' = f
    /\ UNCHANGED <<supVars, relayVars, hpVars, sink, resolved>>

(***************************************************************************)
(* Health-check task (lib.rs 94-143).                                      *)
(***************************************************************************)
\* the 2 second warm-up sleep ends; the baseline read follows at once
WarmupElapsed ==
    /\ hp_pc = "warmup"
    /\ port' = read_backend_port(portFile)
    /\ reads' = reads + 1
    /\ attempt' = 1
    /\ hp_pc' = "loop_top"
    /\ UNCHANGED <<current_port, url_port, prev_url, probes, delays, failures, last_resp>>
    /\ UNCHANGED <<supVars, relayVars, portFile, sink, resolved>>

\* if current_port != port { port = current_port; }
updated_port_stale(old, cur) == old
updated_port(old, cur) == IF cur /= old THEN cur ELSE old

\* top of the loop body: re-read the port file, build the URL, send the GET
AttemptStart_HoldsLock ==
    /\ hp_pc = "loop_top"
    /\ lock_free
    /\ mutex' = "health"
    /\ current_port' = read_backend_port(portFile)
    /\ port' = read_backend_port(portFile)
    /\ url_port' = read_backend_port(portFile)
    /\ prev_url' = url_port
    /\ reads' = reads + 1
    /\ probes' = probes + 1
    /\ hp_pc' = "http_await"
    /\ UNCHANGED <<attempt, delays, failures, last_resp>>
    /\ UNCHANGED <<debug, setup_pc, spawned, slot, stores, kills, win_pc, destroys>>
    /\ UNCHANGED <<relayVars, portFile, sink, resolved>>
AttemptStart ==
    /\ hp_pc = "loop_top"
    /\ LET cur == read_backend_port(portFile)
       IN  /\ current_port' = cur
           /\ port' = updated_port(port, cur)
           /\ url_port' = updated_port(port, cur)
    /\ prev_url' = url_port
    /\ reads' = reads + 1
    /\ probes' = probes + 1
    /\ hp_pc' = "http_await"
    /\ UNCHANGED <<attempt, delays, failures, last_resp>>
    /\ UNCHANGED <<supVars, relayVars, portFile, sink, resolved>>

\* Ok(resp) if resp.status().is_success()
healthy_any_ok(resp) == resp.kind = "Ok"
healthy(resp) == resp.kind = "Ok" /\ is_success(resp.status)

\* the match arms on the response: notifications emitted, and whether the
\* arm returns from the task
ArmSuccess_NoReturn(p) == [emit |-> <<ReadyNote(p)>>, ret |-> FALSE]
ArmSuccess(p) == [emit |-> <<ReadyNote(p)>>, ret |-> TRUE]
ArmFailure_Escalates == [emit |-> <<ProberErrorNote>>, ret |-> FALSE]
ArmFailure == [emit |-> <<>>, ret |-> FALSE]

\* client.get(&url).send().await completes with resp; an arm that does not
\* return falls through to sleep(RETRY_DELAY)
ProbeResponse(resp) ==
    /\ hp_pc = "http_await"
    /\ last_resp' = resp
    /\ LET arm == IF healthy(resp) THEN ArmSuccess(port) ELSE ArmFailure
       IN  /\ sink' = sink \o arm.emit
           /\ hp_pc' = IF arm.ret THEN "ready" ELSE "retry_sleep"
           /\ delays' = IF arm.ret THEN delays ELSE delays + 1
    /\ failures' = IF healthy(resp) THEN failures ELSE failures + 1
    /\ UNCHANGED <<attempt, port, current_port, url_port, prev_url, probes, reads>>
    /\ UNCHANGED <<supVars, relayVars, portFile, resolved>>

\* the range 1..=MAX_RETRIES has another value after a
loop_one_more(a) == a <= MAX_RETRIES
loop_continues(a) == a < MAX_RETRIES

\* sleep(RETRY_DELAY) ends: next iteration, or the loop is exhausted
RetryDelayElapsed ==
    /\ hp_pc = "retry_sleep"
    /\ IF loop_continues(attempt)
       THEN /\ attempt' = attempt + 1
            /\ hp_pc' = "loop_top"
            /\ UNCHANGED sink
       ELSE /\ sink' = Append(sink, ProberErrorNote)
            /\ hp_pc' = "failed"
            /\ UNCHANGED attempt
    /\ UNCHANGED <<port, current_port, url_port, prev_url, probes, delays, failures>>
    /\ UNCHANGED <<reads, last_resp>>
    /\ UNCHANGED <<supVars, relayVars, portFile, resolved>>

\* the states of the prober as the design names them
Phase ==
    CASE hp_pc = "not_started" -> "NotStarted"
      [] hp_pc = "warmup" -> "Waiting"
      [] hp_pc \in {"loop_top", "http_await", "retry_sleep"} -> "Probing"
      [] hp_pc = "ready" -> "Ready"
      [] hp_pc = "failed" -> "Failed"

(***************************************************************************)
(* A stand-alone call of the Port Resolver.                                *)
(***************************************************************************)
Resolve ==
    /\ resolved = None
    /\ resolved' = Some(read_backend_port(portFile))
    /\ UNCHANGED <<supVars, relayVars, hpVars, portFile, sink>>

(***************************************************************************)
(* Specifications.                                                         *)
(***************************************************************************)
SetupNext ==
    \/ SetupDebug
    \/ SetupSpawn
    \/ SetupSpawnFail
    \/ StoreLock
    \/ StoreWrite
    \/ StoreUnlock
    \/ SpawnRelayTask
    \/ SpawnHealthTask

WindowNext ==
    \/ DestroyLock
    \/ DestroyTake
    \/ DestroyUnlock

RelayNext ==
    \/ \E event \in CommandEvents : Emit(event)
    \/ KilledExit
    \/ CloseStream
    \/ RelayRecv
    \/ RelayEnd

ProberNext ==
    \/ \E f \in ProbeFiles : PortWrite(f)
    \/ WarmupElapsed
    \/ AttemptStart
    \/ \E resp \in Responses : ProbeResponse(resp)
    \/ RetryDelayElapsed

\* the whole supervisor
Next == SetupNext \/ WindowNext \/ RelayNext \/ ProberNext
Spec == Init /\ [][Next]_vars

\* runs in which the warm-up timer of the health check has not fired:
\* setup, window events, the sidecar's output and the relay
SupervisorNext == SetupNext \/ WindowNext \/ RelayNext
SpecSupervisor == Init /\ [][SupervisorNext]_vars

\* runs of a silent sidecar whose window stays open: setup, the port file
\* and the health check
HealthNext == SetupNext \/ ProberNext
SpecHealth == Init /\ [][HealthNext]_vars

\* runs that cross the components: setup, window events, a sidecar whose
\* only event is its termination (on its own or after the kill), the relay
\* and the health check against a port file that is not rewritten
CrossNext ==
    \/ SetupNext
    \/ WindowNext
    \/ Emit("Terminated")
    \/ KilledExit
    \/ RelayRecv
    \/ WarmupElapsed
    \/ AttemptStart
    \/ \E resp \in Responses : ProbeResponse(resp)
    \/ RetryDelayElapsed
SpecCross == Init /\ [][CrossNext]_vars

\* fair runs: the async runtime schedules both tasks, every timer fires and
\* every health request completes; the sidecar writes lines, terminates or
\* closes its stream when it likes, the window stays open and the port file
\* stays absent or unparsable
LiveFiles == {Missing, File(<<"x">>)}
LiveInit == InitWith(LiveFiles)
LiveEvents == {"Stdout", "Terminated"}
LiveResponses == {TransportError, HttpResponse(200), HttpResponse(500)}
LiveProbeResponse == \E resp \in LiveResponses : ProbeResponse(resp)
LiveNext ==
    \/ SetupNext
    \/ \E event \in LiveEvents : Emit(event)
    \/ CloseStream
    \/ RelayRecv
    \/ RelayEnd
    \/ WarmupElapsed
    \/ AttemptStart
    \/ LiveProbeResponse
    \/ RetryDelayElapsed
LiveFairness ==
    /\ WF_vars(SetupNext)
    /\ WF_vars(RelayRecv)
    /\ WF_vars(RelayEnd)
    /\ WF_vars(WarmupElapsed)
    /\ WF_vars(AttemptStart)
    /\ WF_vars(LiveProbeResponse)
    /\ WF_vars(RetryDelayElapsed)
SpecLive == LiveInit /\ [][LiveNext]_vars /\ LiveFairness

\* the Port Resolver on every enumerated port file
ResolverInit == InitWith(ResolverFiles)
ResolverNext == Resolve
SpecResolver == ResolverInit /\ [][ResolverNext]_vars

(***************************************************************************)
(* Properties.                                                             *)
(***************************************************************************)
ProberNotes == SelectSeq(sink, LAMBDA n : n.from = "prober")
RelayNotes == SelectSeq(sink, LAMBDA n : n.from = "relay")
Names(notes) == {notes[i].name : i \in 1..Len(notes)}

\* C1: when the requests of attempts 1..k-1 failed and the request of
\* attempt k returned a 2xx status, exactly k requests were sent and k-1
\* retry delays taken, exactly one backend-ready and no backend-error is
\* published by the prober, and nothing more is sent or published afterwards.
C1_FirstSuccess ==
    /\ [](healthy(last_resp) =>
            /\ failures \in 0..(MAX_RETRIES - 1)
            /\ probes = failures + 1
            /\ delays = failures
            /\ attempt = failures + 1
            /\ Len(ProberNotes) = 1
            /\ ProberNotes[1].name = "backend-ready")
    /\ [][healthy(last_resp) =>
            /\ probes' = probes
            /\ delays' = delays
            /\ ProberNotes' = ProberNotes]_vars

C1_Witness ==
    /\ healthy(last_resp)
    /\ failures = 2
    /\ probes = 3
    /\ delays = 2
    /\ Len(ProberNotes) = 1

\* C2: no run sends more than 30 health requests; when all 30 failed the
\* prober publishes exactly one backend-error with the message "backend
\* health check failed after 30 retries" and no backend-ready, it publishes
\* that error in no other case, and it sends no request afterwards.
C2_Bound ==
    /\ [](probes <= MAX_RETRIES)
    /\ [](hp_pc = "failed" =>
            /\ probes = MAX_RETRIES
            /\ failures = MAX_RETRIES
            /\ Len(ProberNotes) = 1
            /\ ProberNotes[1].name = "backend-error"
            /\ ProberNotes[1].msg = "backend health check failed after 30 retries")
    /\ []("backend-error" \in Names(ProberNotes) => hp_pc = "failed")
    /\ [](failures = probes => "backend-ready" \notin Names(ProberNotes))
    /\ [][hp_pc = "failed" =>
            /\ probes' = probes
            /\ hp_pc' = "failed"
            /\ ProberNotes' = ProberNotes]_vars

C2_Witness ==
    /\ hp_pc = "failed"
    /\ probes = 30
    /\ failures = 30
    /\ Len(ProberNotes) = 1

\* C3: every attempt re-reads the port file when it starts and sends its
\* request to the port that this read returned; the port carried by
\* backend-ready is the port of the request that succeeded.
C3_PortReRead ==
    /\ [][probes' = probes + 1 =>
            /\ reads' = reads + 1
            /\ current_port' = read_backend_port(portFile)
            /\ url_port' = current_port'
            /\ port' = current_port']_vars
    /\ [](hp_pc = "ready" => ProberNotes[Len(ProberNotes)].payload = Some(url_port))

C3_Witness ==
    /\ hp_pc = "ready"
    /\ probes = 2
    /\ prev_url = 8080
    /\ url_port = 9091
    /\ ProberNotes = <<ReadyNote(9091)>>

\* C7: the prober publishes at most one notification in a run, and none
\* before it has reached Ready or Failed.
C7_AtMostOneProberNote ==
    /\ Len(ProberNotes) <= 1
    /\ Phase \in {"NotStarted", "Waiting", "Probing"} => ProberNotes = <<>>
    /\ Phase = "Ready" => Names(ProberNotes) = {"backend-ready"}
    /\ Phase = "Failed" => Names(ProberNotes) = {"backend-error"}

C7_Witness ==
    /\ Phase = "Failed"
    /\ Len(ProberNotes) = 1
    /\ portFile /= Missing

\* C4: the relay publishes at most one notification in a run; the step
\* that consumes a Terminated event publishes exactly one backend-error
\* ("sidecar process terminated unexpectedly") and stops the relay, and a
\* stopped relay consumes, logs and publishes nothing more, whatever still
\* waits in the stream.
C4_RelayTerminal ==
    /\ [](Len(RelayNotes) <= 1)
    /\ [][(Len(handled') = Len(handled) + 1 /\ handled'[Len(handled')] = "Terminated") =>
            /\ RelayNotes = <<>>
            /\ RelayNotes' = <<RelayErrorNote>>
            /\ RelayNotes'[1].msg = "sidecar process terminated unexpectedly"
            /\ relay_pc' = "stopped"]_vars
    /\ [][relay_pc = "stopped" =>
            /\ relay_pc' = "stopped"
            /\ handled' = handled
            /\ relay_log' = relay_log
            /\ RelayNotes' = RelayNotes]_vars

C4_Witness ==
    /\ relay_pc = "stopped"
    /\ handled = <<"Stdout", "Terminated">>
    /\ rx = <<"Terminated">>
    /\ RelayNotes = <<RelayErrorNote>>

\* C5: the take step of terminate always leaves the slot empty and sends a
\* kill exactly when it found a handle there; a terminate that finds the slot
\* empty sends none, so a handle is killed at most once.
C5_TerminateIdempotent ==
    /\ [](kills <= 1)
    /\ [](win_pc = "unlock" => slot = None)
    /\ [][(win_pc = "take" /\ win_pc' = "unlock") =>
            /\ slot' = None
            /\ slot /= None => kills' = kills + 1
            /\ slot = None => kills' = kills]_vars

C5_Witness ==
    /\ stores = 1
    /\ destroys = 2
    /\ win_pc = "unlock"
    /\ kills = 1
    /\ slot = None

\* C6: at most one sidecar is spawned and stored in a run, the slot holds at
\* most one handle, the store of setup and the terminate of the window
\* handler are never inside their critical sections together, and while one
\* of them is inside its critical section no one else changes the slot.
InStore == setup_pc \in {"store_write", "store_unlock"}
InTerminate == win_pc \in {"take", "unlock"}

C6_ExclusiveHandle ==
    /\ [](spawned <= 1 /\ stores <= 1 /\ Len(slot) <= 1)
    /\ [](~(InStore /\ InTerminate))
    /\ []((mutex = "setup") <=> InStore)
    /\ []((mutex = "window") <=> InTerminate)
    /\ [][(InStore /\ setup_pc' = setup_pc) => slot' = slot]_vars
    /\ [][(InTerminate /\ win_pc' = win_pc) => slot' = slot]_vars

C6_Witness ==
    /\ setup_pc = "store_lock"
    /\ InTerminate
    /\ mutex = "window"

\* C9: the step that consumes an Error event publishes nothing and leaves
\* the relay consuming; a Terminated event consumed after an Error event
\* still yields the backend-error notification.
C9_SpawnErrorLogOnly ==
    /\ [][(Len(handled') = Len(handled) + 1 /\ handled'[Len(handled')] = "Error") =>
            /\ sink' = sink
            /\ relay_pc' = "consuming"
            /\ relay_log' = Append(relay_log, "error")]_vars
    /\ []((\E i, j \in 1..Len(handled) :
              i < j /\ handled[i] = "Error" /\ handled[j] = "Terminated")
            => RelayNotes = <<RelayErrorNote>>)

C9_Witness ==
    /\ handled = <<"Error", "Terminated">>
    /\ RelayNotes = <<RelayErrorNote>>
    /\ relay_pc = "stopped"

\* C10: in a debug build no sidecar is spawned, the slot stays empty, the
\* relay and the health check are never started, nothing is published and
\* no kill is ever sent, also after window Destroyed events.
C10_SkipSpawn ==
    debug =>
        /\ spawned = 0
        /\ stores = 0
        /\ slot = None
        /\ relay_pc = "not_started"
        /\ hp_pc = "not_started"
        /\ sink = <<>>
        /\ kills = 0
        /\ setup_pc \in {"start", "done"}

C10_Witness ==
    /\ debug
    /\ setup_pc = "done"
    /\ destroys = 2
    /\ win_pc = "idle"
    /\ kills = 0

\* C8: read_backend_port returns a u16 for every state of the port file: the
\* number written in the file when its content, with the surrounding
\* whitespace removed, is a decimal numeral (an optional "+", then digits) of
\* value at most 65535, and 8080 in every other case.
Pow10(n) == IF n = 0 THEN 1 ELSE IF n = 1 THEN 10 ELSE IF n = 2 THEN 100
            ELSE IF n = 3 THEN 1000 ELSE IF n = 4 THEN 10000 ELSE 100000 * (10 ^ (n - 5))

RECURSIVE PlaceSum(_, _)
PlaceSum(d, i) ==
    IF i > Len(d) THEN 0
    ELSE to_digit(d[i]) * Pow10(Len(d) - i) + PlaceSum(d, i + 1)

\* the content between its first and last non-whitespace characters
Inner(s) ==
    LET black == {i \in 1..Len(s) : s[i] \notin WhiteSpace}
    IN  IF black = {} THEN <<>>
        ELSE LET lo == CHOOSE i \in black : \A j \in black : i <= j
                 hi == CHOOSE i \in black : \A j \in black : j <= i
             IN  [k \in 1..(hi - lo + 1) |-> s[lo + k - 1]]

Unsigned(t) == IF t /= <<>> /\ t[1] = "+" THEN [k \in 1..(Len(t) - 1) |-> t[k + 1]] ELSE t

IsNumeral(t) ==
    /\ Len(Unsigned(t)) >= 1
    /\ \A i \in 1..Len(Unsigned(t)) : IsDigit(Unsigned(t)[i])
    /\ PlaceSum(Unsigned(t), 1) <= 65535

ExpectedPort(f) ==
    IF f.kind = "File" /\ IsNumeral(Inner(f.content))
    THEN PlaceSum(Unsigned(Inner(f.content)), 1)
    ELSE 8080

C8_ResolverTotal ==
    resolved /= None =>
        /\ Len(resolved) = 1
        /\ resolved[1] \in 0..65535
        /\ resolved[1] = ExpectedPort(portFile)

C8_Witness ==
    /\ portFile = File(<<" ", "+", "6", "5", "\n">>)
    /\ resolved = Some(65)


\* C11: in a production build whose spawn failed, setup has panicked, the
\* slot is empty, nothing was stored, neither task was started and nothing
\* is published; after the panic the program takes no further step (no
\* retry of the spawn, no store, no kill, no task).
SpawnFailed == ~debug /\ setup_pc /= "start" /\ spawned = 0

C11_SpawnFailureFatal ==
    /\ [](SpawnFailed =>
            /\ setup_pc = "panicked"
            /\ slot = None
            /\ stores = 0
            /\ kills = 0
            /\ relay_pc = "not_started"
            /\ hp_pc = "not_started"
            /\ emitted = <<>>
            /\ sink = <<>>)
    /\ [][setup_pc = "panicked" => UNCHANGED <<supVars, relayVars, hpVars, sink>>]_vars

C11_Witness ==
    /\ setup_pc = "panicked"
    /\ destroys = 1
    /\ mutex = "window"
    /\ slot = None
    /\ sink = <<>>


\* C12: the events the relay has handled, followed by those still waiting,
\* are the emitted events in emission order, so each is handled at most once
\* and in order; only the last handled event can be Terminated; a step that
\* handles a stdout line writes one info entry, one that handles a stderr
\* line one error entry, and neither publishes anything.
Handles(event) == Len(handled') = Len(handled) + 1 /\ handled'[Len(handled')] = event

C12_RelayOrder ==
    /\ [](handled \o rx = emitted)
    /\ [](\A i \in 1..Len(handled) : handled[i] = "Terminated" => i = Len(handled))
    /\ [][handled' /= handled =>
            /\ Len(handled') = Len(handled) + 1
            /\ handled'[Len(handled')] = emitted[Len(handled')]
            /\ SubSeq(handled', 1, Len(handled)) = handled]_vars
    /\ [][Handles("Stdout") =>
            /\ relay_log' = Append(relay_log, "info")
            /\ sink' = sink]_vars
    /\ [][Handles("Stderr") =>
            /\ relay_log' = Append(relay_log, "error")
            /\ sink' = sink]_vars

C12_Witness ==
    /\ emitted = <<"Stdout", "Stderr", "Terminated">>
    /\ handled = emitted
    /\ relay_log = <<"info", "error", "warn">>
    /\ RelayNotes = <<RelayErrorNote>>


\* C13: the relay publishes "sidecar process terminated unexpectedly" for no
\* Terminated event that the window handler's own child.kill() caused.
C13_NoErrorForOwnKill ==
    ~(/\ kill_exit > 0
      /\ Len(handled) = kill_exit
      /\ handled[kill_exit] = "Terminated"
      /\ RelayNotes = <<RelayErrorNote>>)


\* C14: once setup has returned in a production build both tasks are
\* running; the relay's step on Terminated appends its backend-error to
\* whatever the sink already holds and leaves the prober untouched, and the
\* prober's step into Ready or Failed appends its notification whatever the
\* sink already holds and leaves the relay untouched: neither notification
\* is suppressed or reordered because of the other.
relayTask == <<relay_pc, handled, relay_log>>

C14_Independent ==
    /\ []((setup_pc = "done" /\ ~debug) =>
            (relay_pc /= "not_started" /\ hp_pc /= "not_started"))
    /\ [][Handles("Terminated") =>
            /\ sink' = Append(sink, RelayErrorNote)
            /\ hpVars' = hpVars]_vars
    /\ [][(hp_pc /= "failed" /\ hp_pc' = "failed") =>
            /\ sink' = Append(sink, ProberErrorNote)
            /\ relayTask' = relayTask]_vars
    /\ [][(hp_pc /= "ready" /\ hp_pc' = "ready") =>
            /\ sink' = Append(sink, ReadyNote(url_port))
            /\ relayTask' = relayTask]_vars

\* both components publish an error, the prober first
C14_Witness ==
    /\ sink = <<ProberErrorNote, RelayErrorNote>>
    /\ hp_pc = "failed"
    /\ relay_pc = "stopped"

\* the other orders of C14: the relay's error before the prober's error,
\* the relay's error before backend-ready, backend-ready before the relay's
\* error
C14_RelayErrorFirst == sink = <<RelayErrorNote, ProberErrorNote>>
C14_RelayErrorThenReady == Len(sink) = 2 /\ sink[1] = RelayErrorNote /\ sink[2].name = "backend-ready"
C14_ReadyThenRelayError == Len(sink) = 2 /\ sink[1].name = "backend-ready" /\ sink[2] = RelayErrorNote


\* C15: a step of the window handler changes nothing of the health check,
\* of the relay or of the sink, and nothing of setup's own state; the step
\* that stops the relay changes nothing of the health check; so also after
\* the kill and after the relay's backend-error the health check leaves
\* Waiting and Probing only by its own step, on a 2xx response or after the
\* delay that follows its 30th failed request.
C15_NoCancellation ==
    /\ [][win_pc' /= win_pc =>
            /\ hpVars' = hpVars
            /\ relayVars' = relayVars
            /\ sink' = sink
            /\ <<debug, setup_pc, spawned, stores>>' = <<debug, setup_pc, spawned, stores>>]_vars
    /\ [][(relay_pc /= "stopped" /\ relay_pc' = "stopped") => hpVars' = hpVars]_vars
    /\ [][(Phase \in {"Waiting", "Probing"} /\ Phase' \notin {"Waiting", "Probing"}) =>
            \/ hp_pc = "http_await" /\ healthy(last_resp') /\ Phase' = "Ready"
            \/ hp_pc = "retry_sleep" /\ failures = MAX_RETRIES /\ Phase' = "Failed"]_vars

C15_Witness ==
    /\ kills = 1
    /\ kill_exit = 1
    /\ relay_pc = "stopped"
    /\ RelayNotes = <<RelayErrorNote>>
    /\ hp_pc = "http_await"
    /\ probes = MAX_RETRIES

\* C16: the Mutex is held only by setup between its lock and the end of the
\* store block and by the window handler between its lock and its return;
\* whoever holds it can always take its next step (it waits for nothing while
\* holding it); no step of the relay or of the health check changes the
\* Mutex or the slot, so neither task ever holds or waits for the lock.
C16_NoLockAcrossAwait ==
    /\ [](mutex \in {"free", "setup", "window"})
    /\ [](mutex = "setup" => setup_pc \in {"store_write", "store_unlock"})
    /\ [](mutex = "window" => win_pc \in {"take", "unlock"})
    /\ [](setup_pc \in {"spawn_relay", "spawn_health", "done"} => mutex /= "setup")
    /\ [](win_pc = "idle" => mutex /= "window")
    /\ [](mutex = "setup" => ENABLED (StoreWrite \/ StoreUnlock))
    /\ []((mutex = "window" /\ Alive) => ENABLED (DestroyTake \/ DestroyUnlock))
    /\ [][((hpVars' /= hpVars \/ relayTask' /= relayTask) /\ setup_pc' = setup_pc) =>
            (mutex' = mutex /\ slot' = slot)]_vars

C16_Witness ==
    /\ mutex = "window"
    /\ win_pc = "take"
    /\ hp_pc = "http_await"
    /\ relay_pc = "consuming"
    /\ rx = <<>>


\* C17: the health check starts in Waiting; until the warm-up delay has
\* ended it has read the port file never and sent no request; the step that
\* ends the warm-up makes the one baseline read; every attempt, the first
\* included, adds one read of its own, and the first request goes to the
\* port the file holds when attempt 1 starts.
C17_WarmupOrder ==
    /\ [][(hp_pc = "not_started" /\ hp_pc' /= "not_started") => Phase' = "Waiting"]_vars
    /\ [](Phase \in {"NotStarted", "Waiting"} => (reads = 0 /\ probes = 0))
    /\ [][(Phase = "Waiting" /\ Phase' /= "Waiting") =>
            /\ reads' = 1
            /\ probes' = 0
            /\ attempt' = 1
            /\ port' = read_backend_port(portFile)]_vars
    /\ [](Phase \in {"Probing", "Ready", "Failed"} => reads = probes + 1)
    /\ [][(probes = 0 /\ probes' = 1) =>
            /\ reads' = 2
            /\ url_port' = read_backend_port(portFile)]_vars

C17_Witness ==
    /\ hp_pc = "http_await"
    /\ probes = 1
    /\ reads = 2
    /\ attempt = 1
    /\ url_port = 9091
    /\ portFile = Missing


\* C18: backend-ready is published only by the step that receives a
\* response with a status in 200..299, with no delay and no port read in
\* that step; a step that receives any other status or a transport error
\* publishes nothing, stays in Probing and starts one retry delay, the same
\* in both cases; the next attempt and the Failed transition both happen
\* only when such a delay ends.
Is2xx(resp) == resp.kind = "Ok" /\ resp.status \in 200..299
Answered == hp_pc = "http_await" /\ hp_pc' /= "http_await"

C18_ReadyOnly2xx ==
    /\ [][ProberNotes' /= ProberNotes /\ ProberNotes'[Len(ProberNotes')].name = "backend-ready" =>
            /\ Answered
            /\ Is2xx(last_resp')
            /\ ProberNotes'[Len(ProberNotes')].payload = Some(url_port)
            /\ reads' = reads
            /\ delays' = delays]_vars
    /\ [][(Answered /\ Is2xx(last_resp')) => Phase' = "Ready"]_vars
    /\ [][(Answered /\ ~Is2xx(last_resp')) =>
            /\ last_resp'.kind \in {"Ok", "Err"}
            /\ Phase' = "Probing"
            /\ hp_pc' = "retry_sleep"
            /\ delays' = delays + 1
            /\ sink' = sink]_vars
    /\ [][(attempt >= 1 /\ attempt' = attempt + 1) => hp_pc = "retry_sleep"]_vars
    /\ [][(Phase /= "Failed" /\ Phase' = "Failed") =>
            (hp_pc = "retry_sleep" /\ attempt = MAX_RETRIES)]_vars
    /\ [](delays = failures)

C18_Witness ==
    /\ hp_pc = "ready"
    /\ last_resp = HttpResponse(299)
    /\ failures = 2
    /\ delays = 2
    /\ probes = 3
    /\ url_port = 8080


\* C19: in fair runs, after a successful spawn the health check eventually
\* is in Ready or Failed, and then it has published exactly one
\* notification; once the stream holds a Terminated event or is closed the
\* relay eventually stops; a relay that stopped without having handled a
\* Terminated event stopped on the closed stream and published nothing.
C19_TasksTerminate ==
    /\ (spawned = 1) ~> (Phase \in {"Ready", "Failed"})
    /\ (spawned = 1 /\ (closed \/ \E i \in 1..Len(rx) : rx[i] = "Terminated"))
          ~> (relay_pc = "stopped")
    /\ [](Phase \in {"Ready", "Failed"} => Len(ProberNotes) = 1)
    /\ []((relay_pc = "stopped" /\ \A i \in 1..Len(handled) : handled[i] /= "Terminated")
            => (closed /\ rx = <<>> /\ RelayNotes = <<>>))

C19_Witness ==
    /\ relay_pc = "stopped"
    /\ closed
    /\ handled = <<"Stdout", "Stdout">>
    /\ RelayNotes = <<>>
    /\ Phase = "Failed"
    /\ Len(ProberNotes) = 1


\* C20: the handle is never lost.  Before the store the slot is empty and no
\* kill has been sent; once the spawned handle has been stored, either the
\* slot holds it and no kill has been sent, or the slot is empty and exactly
\* one kill has been sent.  The store precedes the start of both background
\* tasks.  The slot is filled only by setup's store and emptied only by a
\* window-destroy take, and a kill is sent only by a take that found the
\* handle: a window-destroy handled before the store kills nothing, and the
\* handle stored afterwards stays in the slot until another window-destroy.
C20_HandleNeverLost ==
    /\ [](stores = 0 => (slot = None /\ kills = 0))
    /\ [](stores > 0 =>
            /\ stores = 1
            /\ spawned = 1
            /\ ~debug
            /\ \/ slot = Some("child") /\ kills = 0
               \/ slot = None /\ kills = 1)
    /\ []((relay_pc /= "not_started" \/ hp_pc /= "not_started") => stores = 1)
    /\ [][slot' /= slot =>
            \/ setup_pc = "store_write" /\ slot = None /\ slot' = Some("child")
                 /\ kills' = kills
            \/ win_pc = "take" /\ slot = Some("child") /\ slot' = None
                 /\ kills' = kills + 1]_vars
    /\ [][kills' /= kills => (win_pc = "take" /\ slot = Some("child"))]_vars
    /\ [][(win_pc = "take" /\ win_pc' = "unlock" /\ stores = 0) =>
            (kills' = 0 /\ slot' = None /\ stores' = 0)]_vars

\* a window-destroy was handled before the store, found nothing to kill, and
\* the handle stored afterwards is still in the slot, un-killed, with both
\* tasks started
C20_Witness ==
    /\ destroys = 1
    /\ win_pc = "idle"
    /\ stores = 1
    /\ kills = 0
    /\ slot = Some("child")
    /\ setup_pc = "done"
    /\ relay_pc /= "not_started"
    /\ hp_pc /= "not_started"

====
